---- MODULE Spec2Model ----
(***************************************************************************)
(* Terrapin: block-wise content attestation.                               *)
(*                                                                         *)
(*   terrapin/src/lib.rs      Terrapin (the attestor), ChunkReader,        *)
(*                            new_writer, generate_for_reader              *)
(*   terrapin-cli/src/main.rs validate (Validate / Cat commands)           *)
(*                                                                         *)
(* Three specifications share the variables below:                         *)
(*   SpecTerrapin   any sequence of add() / finalize() calls on one        *)
(*                  Terrapin value;                                        *)
(*   SpecGenerate   one call of generate_for_reader, with the hash tasks   *)
(*                  completing in any order;                               *)
(*   SpecValidate   one call of validate, step by step.                    *)
(*                                                                         *)
(* Scaling.  Bytes are drawn from Byte; the 2 MiB block, the 32-byte       *)
(* digest and BufReader's 8 KiB buffer are scaled down, keeping            *)
(* DIGEST_LEN < BUFREADER_CAPACITY <= BUFFER_CAPACITY and DIGEST_LEN       *)
(* dividing BUFFER_CAPACITY, as in the program.                            *)
(***************************************************************************)
EXTENDS Integers, Sequences, FiniteSets, TLC

\* ---------------------------------------------------------------- bounds
\* Longest stream fed to an attestor, read by the generator or validated.
MaxLen == 9
\* Longest stream handed to generate_for_reader.
MaxGenLen == 4
\* Largest chunk_size handed to generate_for_reader.
MaxChunk == 4
\* Most failing reads one source produces.
MaxReadErrs == 1
\* Most hash tasks one generate_for_reader call is followed through.
MaxTasks == 3

\* The longest input file of the Attest command.
MaxAttestLen == 17

\* The most levels the Attest loop is followed for.
MaxLevels == 5

\* ------------------------------------------------------------- constants
\* BUFFER_CAPACITY, the block size B (2 MiB in the program).
BUFFER_CAPACITY == 4
\* Length of one digest (32 bytes in the program).
DIGEST_LEN == 2
\* Capacity of std::io::BufReader::new (8 KiB in the program).
BUFREADER_CAPACITY == 3

Byte == {0, 1}

Min(a, b) == IF a <= b THEN a ELSE b

\* Every byte sequence of length lo..hi.
SeqsOfLen(lo, hi) == UNION {[1..n -> Byte] : n \in lo..hi}

\* s[from..to), Rust's half-open, 0-based slice.
Slice(s, from, to) == SubSeq(s, from + 1, to)

\* ------------------------------------------------------------ BlockHasher
\* An injective numbering of the sequences over Byte: the digits of Enc(s)
\* in base 3 are s[i] + 1, none of them 0. (Over the digest bytes the Attest
\* command hashes again it is a function of the content, no longer injective.)
RECURSIVE Enc(_)
Enc(s) == IF s = <<>> THEN 0 ELSE (Head(s) + 1) + 3 * Enc(Tail(s))

\* GitOid::<Sha256, Blob>::id_bytes(bytes).as_bytes(): DIGEST_LEN bytes,
\* deterministic, content-only and collision-free.
GitOid(bytes) == [i \in 1..DIGEST_LEN |-> DIGEST_LEN * Enc(bytes) + (i - 1)]

\* --------------------------------------------------------------- Terrapin
\* Terrapin::new()
TerrapinNew == [attestations |-> <<>>, buffer |-> <<>>, finalized |-> FALSE]

\* update_hash_buffer without the early return on an empty buffer.
UpdateHashBufferAlways(t) ==
    [t EXCEPT !.attestations = t.attestations \o GitOid(t.buffer),
              !.buffer = <<>>]

\* Terrapin::update_hash_buffer
UpdateHashBuffer(t) ==
    IF Len(t.buffer) = 0
    THEN t
    ELSE [t EXCEPT !.attestations = t.attestations \o GitOid(t.buffer),
                   !.buffer = <<>>]

\* The loop of add() hashing only once the buffer exceeds the capacity: a
\* full buffer stays, and with bytes left to copy the loop copies nothing
\* for ever ("Hang").
RECURSIVE AddLoopHashPastCapacity(_, _, _)
AddLoopHashPastCapacity(t, data, copied) ==
    IF copied < Len(data)
    THEN LET to_copy == Min(Len(data) - copied, BUFFER_CAPACITY - Len(t.buffer))
             chunk   == Slice(data, copied, copied + to_copy)
             t1      == [t EXCEPT !.buffer = t.buffer \o chunk]
         IN  IF to_copy = 0
             THEN [t |-> t, result |-> "Hang"]
             ELSE IF Len(t1.buffer) > BUFFER_CAPACITY
             THEN AddLoopHashPastCapacity(UpdateHashBuffer(t1), data, copied + to_copy)
             ELSE AddLoopHashPastCapacity(t1, data, copied + to_copy)
    ELSE [t |-> t, result |-> "Ok"]

\* One iteration of the loop of add() with the two comparisons exchanged:
\* past the capacity it hashes, at the capacity it reports an overflow.
AddStepOverflowAtCapacity(t, data, copied) ==
    LET to_copy == Min(Len(data) - copied, BUFFER_CAPACITY - Len(t.buffer))
        chunk   == Slice(data, copied, copied + to_copy)
        t1      == [t EXCEPT !.buffer = t.buffer \o chunk]
    IN  [buffered |-> Len(t.buffer),
         to_copy  |-> to_copy,
         overflow |-> ~(Len(t1.buffer) > BUFFER_CAPACITY)
                          /\ Len(t1.buffer) >= BUFFER_CAPACITY,
         t        |-> IF Len(t1.buffer) > BUFFER_CAPACITY
                      THEN UpdateHashBuffer(t1) ELSE t1]

\* One iteration of the while loop of add(), entered with `copied` bytes of
\* data taken: what was buffered when it began, how many bytes it copies,
\* whether it leaves by the BufferOverflowError branch, and the attestor
\* after it.
AddStep(t, data, copied) ==
    LET to_copy == Min(Len(data) - copied, BUFFER_CAPACITY - Len(t.buffer))
        chunk   == Slice(data, copied, copied + to_copy)
        t1      == [t EXCEPT !.buffer = t.buffer \o chunk]
    IN  [buffered |-> Len(t.buffer),
         to_copy  |-> to_copy,
         overflow |-> ~(Len(t1.buffer) >= BUFFER_CAPACITY)
                          /\ Len(t1.buffer) > BUFFER_CAPACITY,
         t        |-> IF Len(t1.buffer) >= BUFFER_CAPACITY
                      THEN UpdateHashBuffer(t1) ELSE t1]

\* The while loop of add(): the attestor and the result once it has run from
\* `copied`, and the iterations it took.
RECURSIVE AddLoop(_, _, _)
AddLoop(t, data, copied) ==
    IF copied < Len(data)
    THEN LET step == AddStep(t, data, copied)
             it   == [buffered |-> step.buffered, to_copy |-> step.to_copy]
         IN  IF step.overflow
             THEN [t |-> step.t, result |-> "BufferOverflowError",
                   iterations |-> <<it>>]
             ELSE LET rest == AddLoop(step.t, data, copied + step.to_copy)
                  IN  [rest EXCEPT !.iterations = <<it>> \o @]
    ELSE [t |-> t, result |-> "Ok", iterations |-> <<>>]

\* add() without the finalized check.
TerrapinAddUnchecked(t, data) == AddLoop(t, data, 0)

\* add() that hashes whatever is pending when the call ends.
TerrapinAddFlush(t, data) ==
    IF t.finalized
    THEN [t |-> t, result |-> "FinalizedError"]
    ELSE LET r == AddLoop(t, data, 0)
         IN  [t |-> UpdateHashBuffer(r.t), result |-> r.result]

\* Terrapin::add
TerrapinAdd(t, data) ==
    IF t.finalized
    THEN [t |-> t, result |-> "FinalizedError"]
    ELSE AddLoop(t, data, 0)

\* finalize() that hands out the digest vector instead of a copy of it.
TerrapinFinalizeTake(t) ==
    LET t1 == IF ~t.finalized
              THEN [UpdateHashBuffer(t) EXCEPT !.finalized = TRUE]
              ELSE t
    IN  [t |-> [t1 EXCEPT !.attestations = <<>>], result |-> t1.attestations]

\* Terrapin::finalize
TerrapinFinalize(t) ==
    LET t1 == IF ~t.finalized
              THEN [UpdateHashBuffer(t) EXCEPT !.finalized = TRUE]
              ELSE t
    IN  [t |-> t1, result |-> t1.attestations]

\* The leaf attestation of a whole stream fed in one add() call.
AttestBulk(s) == TerrapinFinalize(TerrapinAdd(TerrapinNew, s).t).result

\* The leaf attestation of a stream fed one byte per add() call.
RECURSIVE FeedBytes(_, _)
FeedBytes(t, s) ==
    IF s = <<>> THEN t ELSE FeedBytes(TerrapinAdd(t, <<Head(s)>>).t, Tail(s))

AttestByteAtATime(s) == TerrapinFinalize(FeedBytes(TerrapinNew, s)).result

VARIABLES
    \* SpecTerrapin
    terrapin,      \* the Terrapin value: attestations, buffer, finalized
    fed,           \* the caller: every byte an add() call accepted, in order
    last_call,     \* the caller: the last call made and its outcome
    prev_call,     \* the caller: the call made before the last one
    final_result,  \* the caller: what the last finalize() returned
    \* SpecGenerate
    chunk_size,    \* generate_for_reader's chunk_size argument
    source,        \* the boxed reader: its bytes, its position, its failed reads
    bufreader,     \* the BufReader around it: the bytes buffered and not yet read
    handles,       \* the spawned hash tasks, in spawn order
    finish_order,  \* the runtime: the indices of the tasks in completion order
    channel,       \* the mpsc channel from new_writer to generate_for_reader
    gen_pc,        \* where the call is
    gen_result,    \* what generate_for_reader returned
    \* SpecValidate
    request,       \* validate's arguments and the files they name
    val,           \* validate's local variables
    sink,          \* the bytes written to the writer so far
    val_pc,        \* where the call is
    outcome,       \* how the call ended
    \* SpecAttest
    attest_in,     \* the Attest command: the input file, whether output is given
    reader,        \* the bytes of the reader the next level is generated from
    attestations,  \* the levels computed so far (reversed before writing)
    files,         \* the files written, by number: output.0, output.1, ...
    stdout,        \* the bytes written to standard output
    attest_pc      \* where the command is

tvars == <<terrapin, fed, last_call, prev_call, final_result>>

gvars == <<chunk_size, source, bufreader, handles, finish_order, channel,
           gen_pc, gen_result>>

vvars == <<request, val, sink, val_pc, outcome>>

avars == <<attest_in, reader, attestations, files, stdout, attest_pc>>

vars == <<tvars, gvars, vvars, avars>>

\* ------------------------------------------------- SpecTerrapin: actions
\* A call as the caller sees it: the operation, the length of the data
\* passed and the result.
Call(op, len, result) == [op |-> op, len |-> len, result |-> result]

\* The generator, not called.
GenIdle ==
    /\ chunk_size = 0
    /\ source = [data |-> <<>>, pos |-> 0, errs |-> 0]
    /\ bufreader = <<>>
    /\ handles = <<>>
    /\ finish_order = <<>>
    /\ channel = <<>>
    /\ gen_pc = "idle"
    /\ gen_result = [kind |-> "none", value |-> <<>>]

\* The attestor of SpecTerrapin, not used.
TerrapinIdle ==
    /\ terrapin = TerrapinNew
    /\ fed = <<>>
    /\ last_call = Call("none", 0, "Ok")
    /\ prev_call = Call("none", 0, "Ok")
    /\ final_result = <<>>

\* Option<u64>
None == [some |-> FALSE, value |-> 0]

Some(x) == [some |-> TRUE, value |-> x]

\* validate's locals before the call has set them.
ValLocals ==
    [terrapin |-> TerrapinNew, aligned_start |-> 0, aligned_end |-> 0,
     file_size |-> 0, pos |-> 0, total |-> 0, total_hashed |-> 0, block |-> 1,
     first_block |-> 0, last_block |-> 0, computed_attestations |-> <<>>]

\* validate, not called.
ValidateIdle ==
    /\ request = [input |-> <<>>, original |-> <<>>, attestations |-> <<>>,
                  start |-> None, end |-> None, writer |-> FALSE]
    /\ val = ValLocals
    /\ sink = <<>>
    /\ val_pc = "idle"
    /\ outcome = "none"

\* The Attest command, not run.
AttestIdle ==
    /\ attest_in = [input |-> <<>>, output |-> FALSE]
    /\ reader = <<>>
    /\ attestations = <<>>
    /\ files = <<>>
    /\ stdout = <<>>
    /\ attest_pc = "idle"

InitTerrapin ==
    /\ GenIdle
    /\ ValidateIdle
    /\ AttestIdle
    /\ terrapin = TerrapinNew
    /\ fed = <<>>
    /\ last_call = Call("new", 0, "Ok")
    /\ prev_call = Call("none", 0, "Ok")
    /\ final_result = <<>>

\* A call terrapin.add(data).
Add ==
    \E data \in SeqsOfLen(0, MaxLen - Len(fed)) :
        LET r == TerrapinAdd(terrapin, data)
        IN  /\ terrapin' = r.t
            /\ last_call' = Call("add", Len(data), r.result)
            /\ prev_call' = last_call
            /\ fed' = IF r.result = "Ok" THEN fed \o data ELSE fed
            /\ UNCHANGED <<final_result, gvars, vvars, avars>>

\* A call terrapin.finalize().
Finalize ==
    LET r == TerrapinFinalize(terrapin)
    IN  /\ terrapin' = r.t
        /\ last_call' = Call("finalize", 0, "Ok")
        /\ prev_call' = last_call
        /\ final_result' = r.result
        /\ UNCHANGED <<fed, gvars, vvars, avars>>

NextTerrapin == Add \/ Finalize

SpecTerrapin == InitTerrapin /\ [][NextTerrapin]_vars

\* ------------------------------------------------ SpecTerrapin: properties
CeilDiv(a, b) == (a + b - 1) \div b

\* The i-th block (0-based) of a stream cut at multiples of BUFFER_CAPACITY.
Block(s, i) ==
    Slice(s, i * BUFFER_CAPACITY, Min((i + 1) * BUFFER_CAPACITY, Len(s)))

\* The i-th digest (0-based) of a digest sequence.
Digest(att, i) == Slice(att, i * DIGEST_LEN, (i + 1) * DIGEST_LEN)

\* C3: the sequence finalize() returns depends only on the concatenation of
\* the bytes add() accepted: however the calls split the stream, it is the
\* sequence one bulk add() of the whole stream yields, and the one
\* byte-at-a-time feeding yields.
C3_ChunkingInvariance ==
    terrapin.finalized =>
        /\ final_result = AttestBulk(fed)
        /\ final_result = AttestByteAtATime(fed)

\* C3 witness: a finalized stream of more than one block whose last two
\* add() calls were neither bulk nor single bytes and straddled a block end.
C3_Witness ==
    /\ terrapin.finalized
    /\ last_call.op = "finalize"
    /\ prev_call.op = "add" /\ prev_call.result = "Ok"
    /\ prev_call.len > 1 /\ prev_call.len < Len(fed)
    /\ Len(fed) > BUFFER_CAPACITY
    /\ (Len(fed) - prev_call.len) % BUFFER_CAPACITY # 0
    /\ Len(final_result) = CeilDiv(Len(fed), BUFFER_CAPACITY) * DIGEST_LEN

\* C4: after add() calls totalling L bytes and finalize(), the leaf
\* attestation is ceil(L/B) digests long (none when L = 0) and its i-th
\* digest is the hash of bytes [i*B, min((i+1)*B, L)).
C4_LeafLengthLaw ==
    terrapin.finalized =>
        LET L == Len(fed)
            n == CeilDiv(L, BUFFER_CAPACITY)
        IN  /\ Len(final_result) = n * DIGEST_LEN
            /\ L = 0 => final_result = <<>>
            /\ \A i \in 0..(n - 1) :
                   Digest(final_result, i) = GitOid(Block(fed, i))

\* C4 witness: a finalized stream of two full blocks and a short one.
C4_Witness ==
    /\ terrapin.finalized
    /\ Len(fed) = 2 * BUFFER_CAPACITY + 1
    /\ Len(final_result) = 3 * DIGEST_LEN
    /\ Digest(final_result, 2) = GitOid(<<fed[Len(fed)]>>)

\* C5: once finalized, every add() call fails with FinalizedError and
\* leaves the digests, the buffer and the finalized flag as they were.
C5_AddAfterFinalizeFails ==
    [][(terrapin.finalized /\ last_call'.op = "add")
          => (last_call'.result = "FinalizedError" /\ terrapin' = terrapin
              /\ fed' = fed)]_vars

\* C5 witness: a rejected add() of no bytes after a rejected add() of some.
C5_Witness ==
    /\ terrapin.finalized
    /\ last_call = Call("add", 0, "FinalizedError")
    /\ prev_call.op = "add" /\ prev_call.len > BUFFER_CAPACITY
    /\ prev_call.result = "FinalizedError"
    /\ terrapin.buffer = <<>>

\* C6: every finalize() after the first returns what the previous one
\* returned and appends no digest, whatever add() calls failed in between.
C6_FinalizeIdempotent ==
    [][(terrapin.finalized /\ last_call'.op = "finalize")
          => (final_result' = final_result
              /\ terrapin'.attestations = terrapin.attestations
              /\ final_result' = terrapin'.attestations)]_vars

\* C6 witness: a finalize() right after a rejected add(), so not the first.
C6_Witness ==
    /\ last_call.op = "finalize"
    /\ prev_call.op = "add" /\ prev_call.result = "FinalizedError"
    /\ prev_call.len > 0
    /\ final_result # <<>>
    /\ final_result = terrapin.attestations

\* C7: after every call the buffer holds fewer than B bytes; before
\* finalize it is the last (T mod B) bytes fed and floor(T/B) digests have
\* been emitted, T being the number of bytes fed.
C7_BufferInvariant ==
    LET T == Len(fed)
    IN  /\ Len(terrapin.buffer) < BUFFER_CAPACITY
        /\ ~terrapin.finalized =>
               /\ terrapin.buffer = Slice(fed, T - (T % BUFFER_CAPACITY), T)
               /\ Len(terrapin.attestations) = (T \div BUFFER_CAPACITY) * DIGEST_LEN

\* C7 witness: an add() that crossed two block ends and left bytes pending.
C7_Witness ==
    /\ ~terrapin.finalized
    /\ last_call.op = "add" /\ last_call.len > BUFFER_CAPACITY
    /\ prev_call.op = "add" /\ prev_call.len % BUFFER_CAPACITY # 0
    /\ Len(terrapin.attestations) = 2 * DIGEST_LEN
    /\ Len(terrapin.buffer) > 0

\* ------------------------------------------------------- the byte source
\* One read() on the boxed reader into a buffer of `want` > 0 bytes: at the
\* end of the stream Ok(0); otherwise any number of bytes from 1 up to what
\* the buffer and the stream allow (a read may come back short), or an error.
SourceRead(src, want) ==
    LET remaining == Len(src.data) - src.pos
        counts    == IF remaining = 0 THEN {0} ELSE 1..Min(want, remaining)
    IN  {[ok    |-> TRUE,
          bytes |-> Slice(src.data, src.pos, src.pos + n),
          src   |-> [src EXCEPT !.pos = @ + n]] : n \in counts}
        \cup
        (IF src.errs < MaxReadErrs
         THEN {[ok |-> FALSE, bytes |-> <<>>, src |-> [src EXCEPT !.errs = @ + 1]]}
         ELSE {})

\* BufReader::read into a buffer of `want` bytes: with nothing buffered and
\* want >= its capacity it reads the inner reader directly; otherwise it
\* fills its own buffer with one inner read when that is empty, and hands
\* out what is buffered, up to `want` bytes.
BufReaderRead(src, buf, want) ==
    IF buf = <<>> /\ want >= BUFREADER_CAPACITY
    THEN {[ok |-> r.ok, bytes |-> r.bytes, src |-> r.src, buf |-> <<>>] :
              r \in SourceRead(src, want)}
    ELSE LET fills == IF buf = <<>>
                      THEN {[ok |-> r.ok, src |-> r.src, buf |-> r.bytes] :
                                r \in SourceRead(src, BUFREADER_CAPACITY)}
                      ELSE {[ok |-> TRUE, src |-> src, buf |-> buf]}
         IN  {IF f.ok
              THEN LET n == Min(want, Len(f.buf))
                   IN  [ok |-> TRUE, bytes |-> Slice(f.buf, 0, n), src |-> f.src,
                        buf |-> Slice(f.buf, n, Len(f.buf))]
              ELSE [ok |-> FALSE, bytes |-> <<>>, src |-> f.src, buf |-> <<>>] :
              f \in fills}

\* ---------------------------------------------------- generate_for_reader
\* The concatenation of a sequence of byte vectors.
RECURSIVE Concat(_)
Concat(ss) == IF ss = <<>> THEN <<>> ELSE Head(ss) \o Concat(Tail(ss))

\* tokio::spawn(async move { ... }): a task holding the item the
\* ChunkReader yielded.
Spawn(item) == [chunk |-> item, state |-> "running", output |-> <<>>]

\* A task that ends quietly, with no digest, on a failed read.
RunTaskIgnoreError(h) ==
    IF h.chunk.ok
    THEN [h EXCEPT !.state = "finished", !.output = GitOid(h.chunk.bytes)]
    ELSE [h EXCEPT !.state = "finished"]

\* The body of a spawned task: chunk.expect("") panics on a failed read,
\* otherwise the task ends with the digest of its chunk.
RunTask(h) ==
    IF h.chunk.ok
    THEN [h EXCEPT !.state = "finished", !.output = GitOid(h.chunk.bytes)]
    ELSE [h EXCEPT !.state = "panicked"]

\* The tasks' results in the order the tasks finished.
JoinAllByCompletion(hs, order) == [i \in 1..Len(hs) |-> hs[order[i]]]

\* futures::future::join_all(handles).await: the tasks' results in the order
\* of the handles, whatever the order they finished in.
JoinAll(hs, order) == [i \in 1..Len(hs) |-> hs[i]]

\* The index of the first result that is a JoinError, 0 when there is none.
FirstPanicked(results) ==
    IF \E i \in 1..Len(results) : results[i].state = "panicked"
    THEN CHOOSE i \in 1..Len(results) :
             /\ results[i].state = "panicked"
             /\ \A j \in 1..(i - 1) : results[j].state # "panicked"
    ELSE 0

InitGenerate ==
    /\ TerrapinIdle
    /\ ValidateIdle
    /\ AttestIdle
    /\ chunk_size \in 0..MaxChunk
    /\ \E data \in SeqsOfLen(0, MaxGenLen) :
           source = [data |-> data, pos |-> 0, errs |-> 0]
    /\ bufreader = <<>>
    /\ handles = <<>>
    /\ finish_order = <<>>
    /\ channel = <<>>
    /\ gen_pc = "called"
    /\ gen_result = [kind |-> "none", value |-> <<>>]

\* generate_for_reader without the chunk-size check.
GenerateCallUnchecked ==
    /\ gen_pc = "called"
    /\ gen_pc' = "reading"
    /\ UNCHANGED <<chunk_size, source, bufreader, handles, finish_order, channel,
                   gen_result, tvars, vvars, avars>>

\* generate_for_reader up to root.await: the chunk-size check, the BufReader
\* and the channel.
GenerateCall ==
    /\ gen_pc = "called"
    /\ IF chunk_size = 0
       THEN /\ gen_result' = [kind |-> "InvalidChunkSizeError", value |-> <<>>]
            /\ gen_pc' = "returned"
       ELSE /\ gen_pc' = "reading"
            /\ UNCHANGED gen_result
    /\ UNCHANGED <<chunk_size, source, bufreader, handles, finish_order, channel, tvars, vvars, avars>>

\* One step of join_all's walk over chunk_reader.map(spawn): ChunkReader::next
\* reads once into its chunk_size buffer; Ok(0) ends the walk, anything else
\* (a chunk or an error) is moved into a newly spawned task.
ReadChunk ==
    /\ gen_pc = "reading"
    /\ \E r \in BufReaderRead(source, bufreader, chunk_size) :
           /\ source' = r.src
           /\ bufreader' = r.buf
           /\ IF r.ok /\ r.bytes = <<>>
              THEN /\ gen_pc' = "joining"
                   /\ UNCHANGED handles
              ELSE /\ Len(handles) < MaxTasks
                   /\ handles' = Append(handles, Spawn([ok |-> r.ok, bytes |-> r.bytes]))
                   /\ UNCHANGED gen_pc
    /\ UNCHANGED <<chunk_size, finish_order, channel, gen_result, tvars, vvars, avars>>

\* The runtime runs a spawned task to its end; tasks end in any order, while
\* the source is still being read or after.
TaskFinish ==
    /\ gen_pc \in {"reading", "joining"}
    /\ \E i \in 1..Len(handles) :
           /\ handles[i].state = "running"
           /\ handles' = [handles EXCEPT ![i] = RunTask(handles[i])]
           /\ finish_order' = Append(finish_order, i)
    /\ UNCHANGED <<chunk_size, source, bufreader, channel, gen_pc, gen_result, tvars, vvars, avars>>

\* new_writer once join_all is ready: each result is sent down the channel
\* in turn; a JoinError panics, and the panic is the end of the call.
SendResults ==
    /\ gen_pc = "joining"
    /\ \A i \in 1..Len(handles) : handles[i].state # "running"
    /\ LET results == JoinAll(handles, finish_order)
           bad     == FirstPanicked(results)
       IN  IF bad = 0
           THEN /\ channel' = [i \in 1..Len(results) |-> results[i].output]
                /\ gen_pc' = "collecting"
                /\ UNCHANGED gen_result
           ELSE /\ channel' = [i \in 1..(bad - 1) |-> results[i].output]
                /\ gen_pc' = "returned"
                /\ gen_result' = [kind |-> "panic", value |-> <<>>]
    /\ UNCHANGED <<chunk_size, source, bufreader, handles, finish_order, tvars, vvars, avars>>

\* generate_for_reader after root.await: the channel is drained into result.
Collect ==
    /\ gen_pc = "collecting"
    /\ gen_result' = [kind |-> "Ok", value |-> Concat(channel)]
    /\ channel' = <<>>
    /\ gen_pc' = "returned"
    /\ UNCHANGED <<chunk_size, source, bufreader, handles, finish_order, tvars, vvars, avars>>

NextGenerate == GenerateCall \/ ReadChunk \/ TaskFinish \/ SendResults \/ Collect

SpecGenerate == InitGenerate /\ [][NextGenerate]_vars

\* ------------------------------------------------ SpecGenerate: properties
\* The chunks in the order ChunkReader yielded them.
ChunksRead == [i \in 1..Len(handles) |-> handles[i].chunk.bytes]

\* C1: whatever order the hash tasks complete in, a successful
\* generate_for_reader returns the digests of the chunks in the order the
\* chunks were read: the result is a function of the chunks alone.
C1_DigestsInReadOrder ==
    gen_result.kind = "Ok" =>
        gen_result.value = Concat([i \in 1..Len(handles) |-> GitOid(ChunksRead[i])])

\* C1 witness: three tasks over chunks with three different digests ended in
\* the reverse of the order they were spawned in, and the call returned.
C1_Witness ==
    /\ gen_pc = "returned"
    /\ gen_result.kind = "Ok"
    /\ Len(handles) = 3
    /\ finish_order = <<3, 2, 1>>
    /\ Cardinality({GitOid(ChunksRead[i]) : i \in 1..3}) = 3
    /\ Len(gen_result.value) = 3 * DIGEST_LEN

\* C2: a successful generate_for_reader hashes pieces of exactly chunk_size
\* bytes, except possibly the last, however the source's reads split the
\* stream, and with chunk_size = B returns what an attestor fed the same
\* bytes returns from finalize().
C2_MatchesAttestor ==
    gen_result.kind = "Ok" =>
        /\ \A i \in 1..(Len(handles) - 1) : Len(ChunksRead[i]) = chunk_size
        /\ chunk_size = BUFFER_CAPACITY =>
               gen_result.value = AttestBulk(source.data)

\* ----------------------------------------------------------------- validate
\* The streams validated: all zero, or with ones placed so that the blocks
\* of a stream differ.
Pattern(k, len) == [i \in 1..len |-> IF k = 1 /\ (i * i) % 3 = 1 THEN 1 ELSE 0]

\* The stream with the byte at position at (1-based) changed; at = 0
\* changes nothing.
Tamper(s, at) == [i \in 1..Len(s) |-> IF i = at THEN 1 - s[i] ELSE s[i]]

Options == {None} \cup {Some(x) : x \in 0..MaxLen}

\* The attestations file as persisted: the last `cut` bytes missing (none
\* when cut = 0).
Truncate(att, cut) == Slice(att, 0, Len(att) - cut)

\* aligned_start
AlignedStart(start) ==
    IF start.some
    THEN start.value - (start.value % BUFFER_CAPACITY)
    ELSE 0

\* aligned_end
AlignedEnd(end, file_size) ==
    IF end.some
    THEN LET proposed_end ==
                 (end.value + BUFFER_CAPACITY) - (end.value % BUFFER_CAPACITY)
         IN  Min(proposed_end, file_size)
    ELSE file_size

\* input_file.read(&mut buffer) on a regular file at offset pos, buffer being
\* BUFFER_CAPACITY bytes: the bytes up to the end of the buffer or the file.
FileRead(file, pos) ==
    IF pos >= Len(file)
    THEN <<>>
    ELSE Slice(file, pos, Min(pos + BUFFER_CAPACITY, Len(file)))

\* The verdict comparing only the first digest of each side.
VerdictFirstDigest(computed_attestations, att_slice) ==
    IF Slice(computed_attestations, 0, Min(DIGEST_LEN, Len(computed_attestations)))
           = Slice(att_slice, 0, Min(DIGEST_LEN, Len(att_slice)))
    THEN "success"
    ELSE "failed"

\* computed_attestations == *att_slice, and the message printed.
Verdict(computed_attestations, att_slice) ==
    IF computed_attestations = att_slice THEN "success" ELSE "failed"

Panicked(o) == o \notin {"none", "success", "failed"}

InitValidate ==
    /\ TerrapinIdle
    /\ GenIdle
    /\ AttestIdle
    /\ \E len \in 0..MaxLen, k \in {0, 1}, at \in 0..MaxLen,
          start \in Options, end \in Options, writer \in BOOLEAN,
          cut \in 0..DIGEST_LEN :
           /\ at <= len
           /\ cut <= Len(AttestBulk(Pattern(k, len)))
           /\ request = [input        |-> Tamper(Pattern(k, len), at),
                         original     |-> Pattern(k, len),
                         attestations |-> Truncate(AttestBulk(Pattern(k, len)), cut),
                         start        |-> start,
                         end          |-> end,
                         writer       |-> writer]
    /\ val = ValLocals
    /\ sink = <<>>
    /\ val_pc = "called"
    /\ outcome = "none"

\* validate up to the loop: the files are opened, the range aligned and the
\* input positioned at aligned_start.
ValidateOpen ==
    /\ val_pc = "called"
    /\ LET file_size == Len(request.input)
       IN  val' = [val EXCEPT !.terrapin = TerrapinNew,
                              !.aligned_start = AlignedStart(request.start),
                              !.file_size = file_size,
                              !.aligned_end = AlignedEnd(request.end, file_size),
                              !.pos = AlignedStart(request.start)]
    /\ val_pc' = "reading"
    /\ UNCHANGED <<request, sink, outcome, tvars, gvars, avars>>

\* One pass of the loop: a read, the checks, the add, the write to the
\* writer, the counters and the test that ends the loop.  aligned_end -
\* aligned_start is u64: when it would be negative the subtraction panics
\* under overflow checks and wraps to a value total never equals without.
ValidateRead ==
    /\ val_pc = "reading"
    /\ LET buffer == FileRead(request.input, val.pos)
           n      == Len(buffer)
           added  == TerrapinAdd(val.terrapin, buffer)
           start_byte == IF request.start.some
                         THEN request.start.value % BUFFER_CAPACITY
                         ELSE 0
           end_byte == n
           total  == val.total + n
           val1   == [val EXCEPT !.total_hashed = @ + n, !.terrapin = added.t]
           val2   == [val1 EXCEPT !.total = total, !.block = @ + 1, !.pos = @ + n]
       IN  IF n = 0
           THEN /\ val_pc' = "comparing"
                /\ UNCHANGED <<val, sink, outcome>>
           ELSE IF val.total > val.aligned_end
           THEN /\ val_pc' = "done"
                /\ outcome' = "panic: total read greater than aligned end"
                /\ UNCHANGED <<val, sink>>
           ELSE IF added.result # "Ok"
           THEN /\ val_pc' = "done"
                /\ outcome' = "panic: add failed"
                /\ val' = val1
                /\ UNCHANGED sink
           ELSE IF request.writer /\ start_byte > end_byte
           THEN /\ val_pc' = "done"
                /\ outcome' = "panic: slice index starts past its end"
                /\ val' = val1
                /\ UNCHANGED sink
           ELSE /\ sink' = IF request.writer
                           THEN sink \o Slice(buffer, start_byte, end_byte)
                           ELSE sink
                /\ val' = val2
                /\ IF val.aligned_end < val.aligned_start
                   THEN \E overflow_checks \in BOOLEAN :
                            IF overflow_checks
                            THEN /\ val_pc' = "done"
                                 /\ outcome' = "panic: attempt to subtract with overflow"
                            ELSE /\ val_pc' = "reading"
                                 /\ UNCHANGED outcome
                   ELSE /\ val_pc' = IF total = val.aligned_end - val.aligned_start
                                     THEN "comparing"
                                     ELSE "reading"
                        /\ UNCHANGED outcome
    /\ UNCHANGED <<request, tvars, gvars, avars>>

\* validate after the loop: finalize, the slice of the persisted
\* attestation and the comparison.  Slicing panics when the bounds are out
\* of order or past the end of the attestation.
ValidateCompare ==
    /\ val_pc = "comparing"
    /\ LET final == TerrapinFinalize(val.terrapin)
           first_block == (val.aligned_start \div BUFFER_CAPACITY) * DIGEST_LEN
           last        == (val.aligned_end \div BUFFER_CAPACITY) * DIGEST_LEN
           last_block  == IF last = 0 THEN DIGEST_LEN ELSE last
       IN  /\ val' = [val EXCEPT !.terrapin = final.t,
                                 !.computed_attestations = final.result,
                                 !.first_block = first_block,
                                 !.last_block = last_block]
           /\ outcome' =
                  IF first_block > last_block
                     \/ last_block > Len(request.attestations)
                  THEN "panic: slice index out of range"
                  ELSE Verdict(final.result,
                               Slice(request.attestations, first_block, last_block))
    /\ val_pc' = "done"
    /\ UNCHANGED <<request, sink, tvars, gvars, avars>>

NextValidate == ValidateOpen \/ ValidateRead \/ ValidateCompare

SpecValidate == InitValidate /\ [][NextValidate]_vars

\* ------------------------------------------------ SpecValidate: properties
\* start and end were both left out: the whole file is verified.
WholeRange == ~request.start.some /\ ~request.end.some

\* The persisted attestation is the leaf attestation of the original stream.
Genuine == request.attestations = AttestBulk(request.original)

\* The requested range [start, end), the defaults filled in.
ReqStart == IF request.start.some THEN request.start.value ELSE 0

ReqEnd == IF request.end.some THEN request.end.value ELSE Len(request.input)

\* min(L, the smallest multiple of B that is >= end); L when end is left out.
AlignedEndRoundUp(end, file_size) ==
    IF end.some
    THEN Min(CeilDiv(end.value, BUFFER_CAPACITY) * BUFFER_CAPACITY, file_size)
    ELSE file_size

\* C8: verifying the whole range of a non-empty stream against the leaf
\* attestation generated from exactly its bytes reports success, as many
\* digests being recomputed as the persisted slice holds.
C8_WholeRangeVerifies ==
    (/\ val_pc = "done"
     /\ WholeRange
     /\ Genuine
     /\ request.input = request.original
     /\ Len(request.input) > 0)
    => /\ outcome = "success"
       /\ Len(val.computed_attestations) = val.last_block - val.first_block

\* C9: with one byte of a non-empty stream changed, verifying the whole
\* range against the original attestation never reports success.
C9_TamperDetected ==
    (/\ val_pc = "done"
     /\ WholeRange
     /\ Genuine
     /\ \E at \in 1..Len(request.original) :
            request.input = Tamper(request.original, at))
    => outcome # "success"

\* C9 witness: a stream of two full blocks with a byte of the second block
\* changed; the first digest still matches, the second does not.
C9_Witness ==
    /\ val_pc = "done"
    /\ WholeRange
    /\ Genuine
    /\ Len(request.original) = 2 * BUFFER_CAPACITY
    /\ request.input = Tamper(request.original, BUFFER_CAPACITY + 2)
    /\ outcome = "failed"
    /\ val.last_block - val.first_block = 2 * DIGEST_LEN
    /\ Len(val.computed_attestations) = 2 * DIGEST_LEN
    /\ Digest(val.computed_attestations, 0) = Digest(request.attestations, 0)
    /\ Digest(val.computed_attestations, 1) # Digest(request.attestations, 1)

\* C10: for start <= end <= L, aligned_start = start - (start mod B) and
\* aligned_end = min(L, the smallest multiple of B >= end); a request with
\* end = B from the start of the file reads one block and compares one
\* digest.
C10_Alignment ==
    (/\ val_pc # "called"
     /\ ReqStart <= ReqEnd
     /\ ReqEnd <= Len(request.input))
    => /\ val.aligned_start = ReqStart - (ReqStart % BUFFER_CAPACITY)
       /\ val.aligned_end = AlignedEndRoundUp(request.end, Len(request.input))
       /\ (/\ val_pc = "done"
           /\ ~Panicked(outcome)
           /\ ReqStart = 0
           /\ request.end = Some(BUFFER_CAPACITY))
          => /\ val.block - 1 = 1
             /\ val.last_block - val.first_block = DIGEST_LEN

\* C11: in Cat mode, for start <= end <= L, nothing outside [start, end) is
\* ever written and a call that ends has written exactly the bytes
\* [start, end) of the source, in order.  Stated for end not a multiple of
\* B, where aligned_end is the block boundary the claim expects.
C11_CatExact ==
    (/\ request.writer
     /\ ReqStart <= ReqEnd
     /\ ReqEnd <= Len(request.input)
     /\ ReqEnd % BUFFER_CAPACITY # 0)
    => LET wanted == Slice(request.input, ReqStart, ReqEnd)
       IN  /\ Len(sink) <= Len(wanted)
           /\ sink = Slice(wanted, 0, Len(sink))
           /\ (val_pc = "done" /\ ~Panicked(outcome)) => sink = wanted

\* The slice of the persisted attestation the aligned range calls for.
NeededFirst == (val.aligned_start \div BUFFER_CAPACITY) * DIGEST_LEN

NeededLast == (val.aligned_end \div BUFFER_CAPACITY) * DIGEST_LEN

\* C12: when the slice [(aligned_start/B)*32, (aligned_end/B)*32) reaches
\* past the end of the persisted attestation the call ends in an error that
\* is neither success nor mismatch (here: the slice panic), and the bounds
\* used are those very bounds, never others.
C12_SliceNotAdjusted ==
    (val_pc = "done" /\ val.computed_attestations = val.terrapin.attestations
     /\ val.terrapin.finalized)
    => /\ NeededLast > Len(request.attestations)
              => outcome = "panic: slice index out of range"
       /\ val.first_block = NeededFirst
       /\ val.last_block = NeededLast

\* C13: a persisted attestation whose length is not a multiple of the digest
\* length never yields success or mismatch, whatever the range.
C13_OddLengthRejected ==
    (val_pc = "done" /\ Len(request.attestations) % DIGEST_LEN # 0)
    => outcome \notin {"success", "failed"}

\* ------------------------------------------------------ the Attest command
\* The read of a regular file or of a Cursor through the BufReader: it does
\* not fail and it returns as many bytes as it can.
FullRead(src, buf, want) ==
    {r \in BufReaderRead(src, buf, want) :
        /\ r.ok
        /\ \A q \in BufReaderRead(src, buf, want) : q.ok => q.src.pos <= r.src.pos}

\* The chunks ChunkReader yields over such a reader, up to its first Ok(0).
RECURSIVE ChunksOf(_, _, _)
ChunksOf(src, buf, size) ==
    CHOOSE chunks \in {IF r.bytes = <<>> THEN <<>>
                       ELSE <<r.bytes>> \o ChunksOf(r.src, r.buf, size) :
                           r \in FullRead(src, buf, size)} : TRUE

\* generate_for_reader over a File or a Cursor holding `data`: one digest per
\* chunk, in the order of the chunks.
GenerateForReader(data, size) ==
    IF size = 0
    THEN [kind |-> "InvalidChunkSizeError", value |-> <<>>]
    ELSE LET chunks == ChunksOf([data |-> data, pos |-> 0, errs |-> MaxReadErrs],
                                <<>>, size)
         IN  [kind |-> "Ok",
              value |-> Concat([i \in 1..Len(chunks) |-> GitOid(chunks[i])])]

AttestChunkSizeDigest == DIGEST_LEN

\* The chunk size the Attest command passes: 2*1024*1024.
AttestChunkSize == BUFFER_CAPACITY

ReverseNot(s) == s

\* Vec::reverse.
Reverse(s) == [i \in 1..Len(s) |-> s[Len(s) + 1 - i]]

InitAttest ==
    /\ TerrapinIdle
    /\ GenIdle
    /\ ValidateIdle
    /\ \E len \in 0..MaxAttestLen, k \in 0..1, out \in BOOLEAN :
           /\ attest_in = [input |-> Pattern(k, len), output |-> out]
           /\ reader = Pattern(k, len)
    /\ attestations = <<>>
    /\ files = <<>>
    /\ stdout = <<>>
    /\ attest_pc = "looping"

\* One iteration of the loop: a level is generated from the reader and
\* pushed; a level of exactly DIGEST_LEN bytes ends the loop, any other one
\* becomes the next reader.
AttestLoop ==
    /\ attest_pc = "looping"
    /\ Len(attestations) < MaxLevels
    /\ \E generated \in {GenerateForReader(reader, AttestChunkSize)} :
           IF generated.kind # "Ok"
           THEN /\ attest_pc' = "panic: reading data failed"
                /\ UNCHANGED <<attestations, reader>>
           ELSE /\ attestations' = Append(attestations, generated.value)
                /\ IF Len(generated.value) = DIGEST_LEN
                   THEN /\ attest_pc' = "writing"
                        /\ UNCHANGED reader
                   ELSE /\ reader' = generated.value
                        /\ UNCHANGED attest_pc
    /\ UNCHANGED <<attest_in, files, stdout, tvars, gvars, vvars>>

\* After the loop: the levels are reversed, then written to numbered files,
\* or the last of them to standard output when no output path is given.
AttestWrite ==
    /\ attest_pc = "writing"
    /\ attestations' = Reverse(attestations)
    /\ IF attest_in.output
       THEN /\ files' = attestations'
            /\ UNCHANGED stdout
       ELSE /\ stdout' = attestations'[Len(attestations')]
            /\ UNCHANGED files
    /\ attest_pc' = "done"
    /\ UNCHANGED <<attest_in, reader, tvars, gvars, vvars>>

NextAttest == AttestLoop \/ AttestWrite

\* The command runs on its own thread of control until it returns.
SpecAttest == InitAttest /\ [][NextAttest]_vars /\ WF_vars(NextAttest)

\* ---------------------------------------------------- properties of Attest
\* The level above a level: the digests of its blocks of BUFFER_CAPACITY
\* bytes, in order.
LevelAbove(level) ==
    Concat([i \in 1..CeilDiv(Len(level), BUFFER_CAPACITY) |->
                GitOid(Block(level, i - 1))])

\* Level k of an input: Level 0 is the leaf attestation of the input itself.
RECURSIVE LevelOf(_, _)
LevelOf(data, k) ==
    IF k = 0 THEN LevelAbove(data) ELSE LevelAbove(LevelOf(data, k - 1))

\* The number of blocks of the input file.
InputBlocks == CeilDiv(Len(attest_in.input), BUFFER_CAPACITY)

\* ceil(log_{B/32}(n)) for n >= 1.
RECURSIVE CeilLog(_)
CeilLog(n) ==
    IF n <= 1 THEN 0
    ELSE 1 + CeilLog(CeilDiv(n, BUFFER_CAPACITY \div DIGEST_LEN))

\* C14: when Level 0 of the input is at most DIGEST_LEN bytes long (one
\* block, or no block at all for an empty input), the Attest loop computes
\* Level 0 and no further level.
C14_DegenerateOneLevel ==
    Len(LevelOf(attest_in.input, 0)) <= DIGEST_LEN => Len(attestations) <= 1

\* What C15 says of every state of the loop, for an input of N >= 1 blocks.
C15_Levels ==
    (InputBlocks >= 1 /\ attest_pc \in {"looping", "writing"}) =>
        /\ \A i \in 2..Len(attestations) :
               /\ Len(attestations[i - 1]) > DIGEST_LEN
               /\ Len(attestations[i]) < Len(attestations[i - 1])
        /\ attest_pc = "looping" => Len(attestations) <= CeilLog(InputBlocks)
        /\ attest_pc = "writing" =>
               /\ Len(attestations[Len(attestations)]) = DIGEST_LEN
               /\ Len(attestations) - 1 = CeilLog(InputBlocks)

\* C15: for an input of N >= 1 blocks the Attest loop ends; every level it
\* computes after one longer than DIGEST_LEN bytes is strictly shorter than
\* that one, the last level is exactly DIGEST_LEN bytes, and the levels
\* above Level 0 number ceil(log_{B/32}(N)).
C15_LevelsTerminate ==
    /\ []C15_Levels
    /\ (InputBlocks >= 1) ~> (attest_pc \in {"writing", "done"})

\* C15 witness: the loop has ended on an input of five blocks, with three
\* levels above Level 0.
C15_Witness ==
    /\ attest_pc = "writing"
    /\ InputBlocks = 5
    /\ Len(attestations) = 4
    /\ Len(attestations[4]) = DIGEST_LEN

\* C16: with an output path, file n of the T files written holds level
\* T - 1 - n: file 0 is the root, DIGEST_LEN bytes long, and file T - 1 is
\* Level 0; without one, standard output receives Level 0.
C16_RootFirstFiles ==
    attest_pc = "done" =>
        IF attest_in.output
        THEN LET T == Len(files)
             IN  /\ T >= 1
                 /\ \A n \in 0..(T - 1) :
                        files[n + 1] = LevelOf(attest_in.input, T - 1 - n)
                 /\ Len(files[1]) = DIGEST_LEN
                 /\ files[T] = LevelOf(attest_in.input, 0)
                 /\ stdout = <<>>
        ELSE /\ stdout = LevelOf(attest_in.input, 0)
             /\ files = <<>>

\* C16 witness: three or more files written for an input of several blocks.
C16_Witness ==
    /\ attest_pc = "done"
    /\ attest_in.output
    /\ Len(files) >= 3
    /\ Len(files[Len(files)]) > DIGEST_LEN

\* ----------------------------------------- error handling of the generator
\* C17: generate_for_reader called with chunk size 0 fails with
\* InvalidChunkSizeError whatever the source holds: it returns no digest,
\* and it neither reads the source nor spawns a task.
C17_ZeroChunkSizeFails ==
    chunk_size = 0 =>
        /\ gen_pc \in {"called", "returned"}
        /\ source.pos = 0 /\ source.errs = 0
        /\ handles = <<>> /\ channel = <<>>
        /\ gen_pc = "returned" =>
               gen_result = [kind |-> "InvalidChunkSizeError", value |-> <<>>]

\* C17 witness: the call has returned for chunk size 0 over a source that
\* holds bytes.
C17_Witness ==
    /\ chunk_size = 0
    /\ gen_pc = "returned"
    /\ gen_result.kind = "InvalidChunkSizeError"
    /\ Len(source.data) > 0

\* A read of the source failed, or a hash task failed.
SomethingFailed ==
    \/ source.errs > 0
    \/ \E i \in 1..Len(handles) : handles[i].state = "panicked"

\* C18: when a read of the source or a hash task has failed, the call does
\* not return a successful result: the caller gets no digest at all, not
\* even those of the chunks read and hashed before the failure.
C18_NoPartialResult ==
    (gen_pc = "returned" /\ SomethingFailed) =>
        /\ gen_result.kind \notin {"Ok", "none"}
        /\ gen_result.value = <<>>

\* C18 witness: the call has ended in failure though a chunk read before
\* the failing read was hashed.
C18_Witness ==
    /\ gen_pc = "returned"
    /\ source.errs > 0
    /\ gen_result.kind = "panic"
    /\ \E i, j \in 1..Len(handles) :
           /\ i < j
           /\ handles[i].state = "finished"
           /\ handles[j].state = "panicked"

\* C19: once a read of the source has returned an error, the generator
\* issues no further read: the source is left as it is.
C19_NoReadAfterError ==
    [][source.errs > 0 => source' = source]_vars

\* --------------------------------------------------- the loop of add()
\* The bytes the step's add() call was given (it returned Ok).
AddedData == Slice(fed', Len(fed), Len(fed'))

RECURSIVE SumToCopy(_)
SumToCopy(its) == IF its = <<>> THEN 0 ELSE Head(its).to_copy + SumToCopy(Tail(its))

\* C20: add() on an attestor that is not finalized returns Ok whatever the
\* length of the data: every iteration of its loop begins with fewer than
\* BUFFER_CAPACITY bytes buffered and copies at least one byte, the
\* iterations copy the data exactly, and none ends in BufferOverflowError.
C20_AddTerminatesOk ==
    [][(last_call'.op = "add" /\ ~terrapin.finalized) =>
          /\ last_call'.result = "Ok"
          /\ last_call'.len = Len(AddedData)
          /\ LET r == TerrapinAdd(terrapin, AddedData)
             IN  /\ r.result = "Ok"
                 /\ r.t = terrapin'
                 /\ \A i \in 1..Len(r.iterations) :
                        /\ r.iterations[i].buffered < BUFFER_CAPACITY
                        /\ r.iterations[i].to_copy >= 1
                 /\ SumToCopy(r.iterations) = Len(AddedData)
                 /\ Len(r.iterations) <= Len(AddedData)]_vars

\* C20 witness: an add() of two blocks or more has returned Ok on an
\* attestor that had bytes pending from the add() before it.
C20_Witness ==
    /\ last_call.op = "add" /\ last_call.result = "Ok"
    /\ last_call.len >= 2 * BUFFER_CAPACITY
    /\ prev_call.op = "add" /\ prev_call.len % BUFFER_CAPACITY # 0
    /\ prev_call.result = "Ok"

====
